---- MODULE Spec2Model ----
(***************************************************************************)
(* PeeringDB MCP server: the write tools (create, update, patch, delete,   *)
(* bulk) of PeeringDBTools, the payload validation they call, the          *)
(* PeeringDBClient verbs they forward to, and the collection resource      *)
(* read of PeeringDBResources.                                             *)
(*                                                                         *)
(* A payload is a function from field names to values.  A value is        *)
(* "good" when it satisfies the rule createFieldSchema gives its field     *)
(* (for id: a string or a number) and "bad" when it does not.             *)
(*                                                                         *)
(* The pure functions have specifications of their own, each a call on     *)
(* arguments drawn in its initial state: createFieldSchema (FieldSpec),    *)
(* validateObjectData on payloads of strings, numbers and booleans         *)
(* (ValidateSpec), parseResourceParams and validateQueryParams             *)
(* (QuerySpec), validateResourceUri (UriSpec), and the functions that     *)
(* take an object type name (TypeSpec).  Where the source                  *)
(* looks inside a string, the string is the sequence of its characters.    *)
(***************************************************************************)
EXTENDS Integers, Sequences, FiniteSets, TLC

(* ------------------------------ bounds -------------------------------- *)

\* longest item list of a bulk request
MaxItems == 3

\* largest batch_size of a bulk request (the schema accepts any number)
MaxBatch == 3

(* ----------------------------- registry ------------------------------- *)

AllOperations == {"POST", "PUT", "PATCH", "DELETE"}

\* writeOperations: ['POST', 'PUT', 'PATCH', 'DELETE'] of every shipped entry
ShippedOperations == AllOperations

PEERINGDB_OBJECTS ==
  [ org |->
      [ endpoint |-> "org",
        requiredFields |-> {"name"},
        optionalFields |-> {"website", "notes", "address1", "address2", "city",
                            "state", "zipcode", "country", "latitude",
                            "longitude", "phone", "email"},
        writeOperations |-> ShippedOperations ],
    fac |->
      [ endpoint |-> "fac",
        requiredFields |-> {"name", "org_id"},
        optionalFields |-> {"website", "clli", "rencode", "npanxx", "notes",
                            "address1", "address2", "city", "state", "zipcode",
                            "country", "latitude", "longitude",
                            "region_continent", "tech_email", "tech_phone",
                            "sales_email", "sales_phone"},
        writeOperations |-> ShippedOperations ],
    ix |->
      [ endpoint |-> "ix",
        requiredFields |-> {"name", "org_id"},
        optionalFields |-> {"name_long", "city", "country", "region_continent",
                            "media", "notes", "proto_unicast",
                            "proto_multicast", "proto_ipv6", "website",
                            "url_stats", "tech_email", "tech_phone",
                            "policy_email", "policy_phone", "sales_email",
                            "sales_phone"},
        writeOperations |-> ShippedOperations ],
    net |->
      [ endpoint |-> "net",
        requiredFields |-> {"name", "org_id", "asn"},
        optionalFields |-> {"aka", "name_long", "website", "irr_as_set",
                            "looking_glass", "route_server", "notes",
                            "notes_private", "info_type", "info_prefixes4",
                            "info_prefixes6", "info_traffic", "info_ratio",
                            "info_scope", "info_unicast", "info_multicast",
                            "info_ipv6", "policy_url", "policy_general",
                            "policy_locations", "policy_ratio",
                            "policy_contracts"},
        writeOperations |-> ShippedOperations ],
    poc |->
      [ endpoint |-> "poc",
        requiredFields |-> {"net_id", "role", "name", "email"},
        optionalFields |-> {"phone", "url", "visible"},
        writeOperations |-> ShippedOperations ],
    ixlan |->
      [ endpoint |-> "ixlan",
        requiredFields |-> {"ix_id", "name"},
        optionalFields |-> {"descr", "mtu", "vlan", "dot1q_support", "rs_asn"},
        writeOperations |-> ShippedOperations ],
    ixpfx |->
      [ endpoint |-> "ixpfx",
        requiredFields |-> {"ixlan_id", "prefix"},
        optionalFields |-> {"protocol"},
        writeOperations |-> ShippedOperations ],
    netixlan |->
      [ endpoint |-> "netixlan",
        requiredFields |-> {"net_id", "ixlan_id"},
        optionalFields |-> {"ipaddr4", "ipaddr6", "is_rs_peer", "speed", "asn",
                            "operational"},
        writeOperations |-> ShippedOperations ],
    netfac |->
      [ endpoint |-> "netfac",
        requiredFields |-> {"net_id", "fac_id"},
        optionalFields |-> {"local_asn", "avail_sonet", "avail_ethernet",
                            "avail_atm"},
        writeOperations |-> ShippedOperations ] ]

getObjectTypes == DOMAIN PEERINGDB_OBJECTS

\* the object types whose tools the model exercises
ModelTypes == {"ixpfx"}

\* the writeOperations lists a descriptor may carry: the full list of the
\* shipped registry, and the lists that leave one operation out
WriteOperationLists ==
  {ShippedOperations} \cup {AllOperations \ {o} : o \in AllOperations}

(* ------------------------------ payloads ------------------------------ *)

Restrict(f, S) == [k \in (DOMAIN f) \cap S |-> f[k]]

\* const { id, ...data } = args
Rest(args) == Restrict(args, (DOMAIN args) \ {"id"})

\* args.id, undefined when the payload has no id
IdOf(args) == IF "id" \in DOMAIN args THEN args["id"] ELSE "undefined"

Values == {"good", "bad"}

\* every payload over the keys K
Payloads(K) == UNION {[S -> Values] : S \in SUBSET K}

(* ----------------------------- validation ----------------------------- *)

\* createObjectSchema with the required fields added for create only
createObjectSchema_CreateOnly(config, operation) ==
  LET idKeys  == IF operation \in {"update", "patch"} THEN {"id"} ELSE {}
      reqKeys == IF operation = "create" THEN config.requiredFields ELSE {}
      optKeys == config.optionalFields
      req1    == (idKeys \cup reqKeys) \ optKeys
      req2    == IF operation = "patch" THEN req1 \cap {"id"} ELSE req1
  IN  [required |-> req2, optional |-> ((idKeys \cup reqKeys \cup optKeys) \ req2)]

\* The schema of createObjectSchema as the pair of its required keys and
\* its optional keys.  schemaFields is filled in the order of the source:
\* id, then the required fields, then the optional fields (which overwrite
\* an entry of the same name with an optional one), then the patch pass.
createObjectSchema(config, operation) ==
  LET idKeys  == IF operation \in {"update", "patch"} THEN {"id"} ELSE {}
      reqKeys == IF operation \in {"create", "update"}
                 THEN config.requiredFields ELSE {}
      optKeys == config.optionalFields
      req1    == (idKeys \cup reqKeys) \ optKeys
      req2    == IF operation = "patch" THEN req1 \cap {"id"} ELSE req1
  IN  [required |-> req2, optional |-> ((idKeys \cup reqKeys \cup optKeys) \ req2)]

\* schema.parse(data): every required key present, every present key of the
\* schema carrying a value its field rule accepts
SchemaAccepts(schema, data) ==
  /\ \A k \in schema.required : k \in DOMAIN data /\ data[k] = "good"
  /\ \A k \in schema.optional \cap DOMAIN data : data[k] = "good"

\* the parsed object: z.object keeps the keys of the schema and drops the rest
SchemaOutput(schema, data) ==
  Restrict(data, schema.required \cup schema.optional)

\* validateObjectData with the ZodError swallowed: the data goes through as parsed
validateObjectData_Swallow(cfg, data, operation) ==
  [ok |-> TRUE, data |-> SchemaOutput(createObjectSchema(cfg, operation), data)]

\* validateObjectData: [ok, data]; ok = FALSE stands for the thrown
\* "Validation failed for ..." error
validateObjectData(config, data, operation) ==
  LET schema == createObjectSchema(config, operation)
  IN  IF SchemaAccepts(schema, data)
      THEN [ok |-> TRUE, data |-> SchemaOutput(schema, data)]
      ELSE [ok |-> FALSE, data |-> <<>>]

(* ------------------------------- state -------------------------------- *)

VARIABLES
  objectType,   \* the object type the registered handlers close over
  writeOps,     \* the writeOperations list of that type's descriptor
  apiKey,       \* PeeringDBClient.apiKey is set
  tool,         \* the tool handler running: none, create, update, patch, delete, bulk
  args,         \* args of an individual tool call
  operation,    \* args.operation of a bulk call
  items,        \* args.items of a bulk call
  batch_size,   \* args.batch_size of a bulk call
  pc,           \* position of the tool handler
  i,            \* loop counter of the batch loop
  batch,        \* items.slice(i, i + batch_size), as indices into items
  pos,          \* place in batch of the item being processed
  results,      \* the results array of the bulk handler
  reply,        \* what the tool handler returned
  rpc,          \* position of the collection resource handler
  inflight,     \* the requests sent to the backend and not yet answered
  calls,        \* history: every client verb invoked by the tool handler
  trace,        \* history: start, call and record of every bulk item
  delays        \* history: number of inter-batch delays started

vars == <<objectType, writeOps, apiKey, tool, args, operation, items,
          batch_size, pc, i, batch, pos, results, reply, rpc, inflight,
          calls, trace, delays>>

reqVars == <<objectType, writeOps, apiKey, tool, args, operation, items, batch_size>>

(* ------------------------------ strings ------------------------------- *)

\* the type names, and the keys, the raw values and the path segments of
\* the resource URIs of the model, with the characters of each
QueryChars ==
  ("limit" :> <<"l", "i", "m", "i", "t">>) @@
  ("skip" :> <<"s", "k", "i", "p">>) @@
  ("depth" :> <<"d", "e", "p", "t", "h">>) @@
  ("since" :> <<"s", "i", "n", "c", "e">>) @@
  ("fields" :> <<"f", "i", "e", "l", "d", "s">>) @@
  ("asn" :> <<"a", "s", "n">>) @@
  ("asn__gte" :> <<"a", "s", "n", "_", "_", "g", "t", "e">>) @@
  ("asn__bogus" :> <<"a", "s", "n", "_", "_", "b", "o", "g", "u", "s">>) @@
  ("asn__in" :> <<"a", "s", "n", "_", "_", "i", "n">>) @@
  ("name__contains" :> <<"n", "a", "m", "e", "_", "_", "c", "o", "n", "t", "a", "i", "n", "s">>) @@
  ("__in" :> <<"_", "_", "i", "n">>) @@
  ("10" :> <<"1", "0">>) @@
  ("5" :> <<"5">>) @@
  ("abc" :> <<"a", "b", "c">>) @@
  ("5abc" :> <<"5", "a", "b", "c">>) @@
  ("-3" :> <<"-", "3">>) @@
  ("" :> <<>>) @@
  (" 7" :> <<" ", "7">>) @@
  ("1,2" :> <<"1", ",", "2">>) @@
  ("a, b" :> <<"a", ",", " ", "b">>) @@
  ("peeringdb:" :> <<"p", "e", "e", "r", "i", "n", "g", "d", "b", ":">>) @@
  ("net" :> <<"n", "e", "t">>) @@
  ("NET" :> <<"N", "E", "T">>) @@
  ("ixpfx" :> <<"i", "x", "p", "f", "x">>) @@
  ("bogus" :> <<"b", "o", "g", "u", "s">>) @@
  ("123" :> <<"1", "2", "3">>) @@
  ("example.net" :> <<"e", "x", "a", "m", "p", "l", "e", ".", "n", "e", "t">>) @@
  ("org" :> <<"o", "r", "g">>) @@
  ("ORG" :> <<"O", "R", "G">>) @@
  ("Org" :> <<"O", "r", "g">>) @@
  ("fac" :> <<"f", "a", "c">>) @@
  ("FAC" :> <<"F", "A", "C">>) @@
  ("Fac" :> <<"F", "a", "c">>) @@
  ("ix" :> <<"i", "x">>) @@
  ("IX" :> <<"I", "X">>) @@
  ("Ix" :> <<"I", "x">>) @@
  ("Net" :> <<"N", "e", "t">>) @@
  ("poc" :> <<"p", "o", "c">>) @@
  ("POC" :> <<"P", "O", "C">>) @@
  ("Poc" :> <<"P", "o", "c">>) @@
  ("ixlan" :> <<"i", "x", "l", "a", "n">>) @@
  ("IXLAN" :> <<"I", "X", "L", "A", "N">>) @@
  ("Ixlan" :> <<"I", "x", "l", "a", "n">>) @@
  ("IXPFX" :> <<"I", "X", "P", "F", "X">>) @@
  ("Ixpfx" :> <<"I", "x", "p", "f", "x">>) @@
  ("netixlan" :> <<"n", "e", "t", "i", "x", "l", "a", "n">>) @@
  ("NETIXLAN" :> <<"N", "E", "T", "I", "X", "L", "A", "N">>) @@
  ("Netixlan" :> <<"N", "e", "t", "i", "x", "l", "a", "n">>) @@
  ("netfac" :> <<"n", "e", "t", "f", "a", "c">>) @@
  ("NETFAC" :> <<"N", "E", "T", "F", "A", "C">>) @@
  ("Netfac" :> <<"N", "e", "t", "f", "a", "c">>) @@
  ("BOGUS" :> <<"B", "O", "G", "U", "S">>)

\* the string a sequence of characters spells
RECURSIVE Join(_)
Join(s) == IF s = <<>> THEN "" ELSE Head(s) \o Join(Tail(s))

UpperChars == <<"A", "B", "C", "D", "E", "F", "G", "H", "I", "J", "K", "L", "M",
                "N", "O", "P", "Q", "R", "S", "T", "U", "V", "W", "X", "Y", "Z">>

LowerChars == <<"a", "b", "c", "d", "e", "f", "g", "h", "i", "j", "k", "l", "m",
                "n", "o", "p", "q", "r", "s", "t", "u", "v", "w", "x", "y", "z">>

\* String.prototype.toLowerCase
toLowerCase(s) ==
  [p \in 1..Len(s) |->
     IF \E q \in 1..Len(UpperChars) : UpperChars[q] = s[p]
     THEN LowerChars[CHOOSE q \in 1..Len(UpperChars) : UpperChars[q] = s[p]]
     ELSE s[p]]

\* the descriptor the handlers of objectType close over
config == [PEERINGDB_OBJECTS[objectType] EXCEPT !.writeOperations = writeOps]

\* PEERINGDB_OBJECTS[objectType.toLowerCase()]; a record without endpoint
\* and with no write operation stands for undefined
getObjectConfig(type) ==
  LET key == Join(toLowerCase(QueryChars[type]))
  IN  IF key = objectType THEN config
      ELSE IF key \in DOMAIN PEERINGDB_OBJECTS THEN PEERINGDB_OBJECTS[key]
      ELSE [writeOperations |-> {}]

\* config?.writeOperations.includes(operation) ?? false
supportsOperation(type, op) == op \in getObjectConfig(type).writeOperations

\* the verb each individual tool is registered for
ToolVerb == [create |-> "POST", update |-> "PUT", patch |-> "PATCH", delete |-> "DELETE"]

\* the verb each bulk sub-operation forwards to
BulkVerb == [create |-> "POST", update |-> "PUT", delete |-> "DELETE"]

\* registerObjectTools registers peeringdb_<tool>_<type> only for a supported verb
Registered(t) == supportsOperation(objectType, ToolVerb[t])

(* ------------------------------ inputs -------------------------------- *)

\* keys a tool payload is built from: id, the descriptor's fields and a
\* field no schema has
ArgKeys(type) ==
  {"id", "unknown_field"} \cup PEERINGDB_OBJECTS[type].requiredFields
                          \cup PEERINGDB_OBJECTS[type].optionalFields

ToolArgs(type) == Payloads(ArgKeys(type))

\* the items of a bulk request: a record with an id and every required
\* field, and a record without id whose only field has a rejected value
BulkItems(type) ==
  { [k \in {"id"} \cup PEERINGDB_OBJECTS[type].requiredFields |-> "good"],
    [k \in {CHOOSE f \in PEERINGDB_OBJECTS[type].requiredFields : TRUE} |-> "bad"] }

ItemLists(type) == UNION {[1..n -> BulkItems(type)] : n \in 0..MaxItems}

\* batch_size: z.number().optional().default(10) puts no lower bound on the
\* number, so zero is a batch size the handler runs with
BatchSizes == 0..MaxBatch

\* the history counter delays stops counting here (a run with batch size
\* at least 1 has fewer delays than items)
DelayCap == MaxItems + 1

Min(a, b) == IF a < b THEN a ELSE b
Max(a, b) == IF a > b THEN a ELSE b

Init ==
  /\ objectType \in ModelTypes
  /\ writeOps \in WriteOperationLists
  /\ apiKey \in BOOLEAN
  /\ tool = "none"
  /\ args = <<>>
  /\ operation = "none"
  /\ items = <<>>
  /\ batch_size = 0
  /\ pc = "idle"
  /\ i = 0
  /\ batch = <<>>
  /\ pos = 0
  /\ results = <<>>
  /\ reply = [isError |-> FALSE, kind |-> "none"]
  /\ rpc = "idle"
  /\ inflight = {}
  /\ calls = <<>>
  /\ trace = <<>>
  /\ delays = 0

(* ------------------------- PeeringDBClient ---------------------------- *)

\* one invocation of client.post / put / patch / delete; item is the place
\* of the bulk item it was made for, 0 for an individual tool call
CallRecord(verb, id, data, k) ==
  [verb |-> verb, endpoint |-> config.endpoint, id |-> id, data |-> data, item |-> k]

\* validateApiKey: the verb throws before any request when no key is set
validateApiKey == apiKey

\* what a handler forwards: [ok, verb, id, data]; ok = FALSE when
\* validateObjectData threw
Forward(t, payload) ==
  IF t = "create"
  THEN LET v == validateObjectData(config, payload, "create")
       IN  [ok |-> v.ok, verb |-> "POST", id |-> "none", data |-> v.data]
  ELSE IF t = "update"
  THEN LET v == validateObjectData(config, Rest(payload), "update")
       IN  [ok |-> v.ok, verb |-> "PUT", id |-> IdOf(payload), data |-> v.data]
  ELSE IF t = "patch"
  THEN LET v == validateObjectData(config, Rest(payload), "patch")
       IN  [ok |-> v.ok, verb |-> "PATCH", id |-> IdOf(payload), data |-> v.data]
  ELSE [ok |-> TRUE, verb |-> "DELETE", id |-> IdOf(payload), data |-> <<>>]

(* ------------------------ individual tool calls ----------------------- *)

bulkVars == <<operation, items, batch_size, i, batch, pos, results, trace, delays>>

\* peeringdb_create_<type>, _update_, _patch_, _delete_: the handler up to
\* its await, or to its return when validation or validateApiKey throws
ToolHandler(t, a) ==
  /\ pc = "idle"
  /\ Registered(t)
  /\ tool' = t
  /\ args' = a
  /\ LET f == Forward(t, a)
     IN  IF ~f.ok
         THEN /\ reply' = [isError |-> TRUE, kind |-> "validation"]
              /\ pc' = "done"
              /\ UNCHANGED <<calls, inflight>>
         ELSE /\ calls' = Append(calls, CallRecord(f.verb, f.id, f.data, 0))
              /\ IF validateApiKey
                 THEN /\ inflight' = inflight \cup {[owner |-> "tool", item |-> 0]}
                      /\ pc' = "await"
                      /\ UNCHANGED reply
                 ELSE /\ reply' = [isError |-> TRUE, kind |-> "credential"]
                      /\ pc' = "done"
                      /\ UNCHANGED inflight
  /\ UNCHANGED <<objectType, writeOps, apiKey, rpc>>
  /\ UNCHANGED bulkVars

\* a call of a tool that registerObjectTools did not register reaches no handler
NoToolHandler(t) ==
  /\ pc = "idle"
  /\ ~Registered(t)
  /\ tool' = t
  /\ reply' = [isError |-> TRUE, kind |-> "not_registered"]
  /\ pc' = "done"
  /\ UNCHANGED <<objectType, writeOps, apiKey, args, rpc, inflight, calls>>
  /\ UNCHANGED bulkVars

\* the awaited verb resolves: the handler returns the success text
ToolBackendOk ==
  /\ pc = "await"
  /\ tool # "bulk"
  /\ \E c \in inflight :
        /\ c.owner = "tool"
        /\ inflight' = inflight \ {c}
  /\ reply' = [isError |-> FALSE, kind |-> "ok"]
  /\ pc' = "done"
  /\ UNCHANGED <<reqVars, rpc, calls, i, batch, pos, results, trace, delays>>

\* the awaited verb rejects: the handler's catch returns isError
ToolBackendErr ==
  /\ pc = "await"
  /\ tool # "bulk"
  /\ \E c \in inflight :
        /\ c.owner = "tool"
        /\ inflight' = inflight \ {c}
  /\ reply' = [isError |-> TRUE, kind |-> "backend"]
  /\ pc' = "done"
  /\ UNCHANGED <<reqVars, rpc, calls, i, batch, pos, results, trace, delays>>

(* ----------------------------- bulk tool ------------------------------ *)

\* slice(start, end - 1): the batch loses its last item
Slice_OffByOne(n, start, end) ==
  LET from == IF start < 0 THEN Max(n + start, 0) ELSE Min(start, n)
      to   == IF end - 1 < 0 THEN Max(n + end - 1, 0) ELSE Min(end - 1, n)
  IN  [j \in 1..Max(to - from, 0) |-> from + j]

\* Array.prototype.slice(start, end) on an array of length n, as the
\* sequence of the 1-based places it keeps: a negative bound counts from
\* the end, and both bounds are clamped to 0..n
Slice(n, start, end) ==
  LET from == IF start < 0 THEN Max(n + start, 0) ELSE Min(start, n)
      to   == IF end < 0 THEN Max(n + end, 0) ELSE Min(end, n)
  IN  [j \in 1..Max(to - from, 0) |-> from + j]

\* i += batch_size
NextI == i + batch_size

\* if (i + batch_size <= items.length): a delay after the last full batch
DelayNeeded_Inclusive == i + batch_size <= Len(items)

\* if (i + batch_size < items.length)
DelayNeeded == i + batch_size < Len(items)

\* results.push({ success, item, ... }) for the item at place k
PushResult(k, ok) == Append(results, [success |-> ok, item |-> items[k]])

\* the for-of over batch moves on to the next item, or ends the batch
NextItem ==
  IF pos < Len(batch)
  THEN pos' = pos + 1 /\ pc' = "item"
  ELSE pos' = pos /\ pc' = "batchend"

\* no inner catch: the error reaches the outer catch and ends the run
ItemFailed_Abort(k) ==
  /\ reply' = [isError |-> TRUE, kind |-> "bulk_failed"]
  /\ pc' = "done"
  /\ UNCHANGED <<pos, results>>

\* the inner catch: the failure becomes the item's result and the loop goes on
ItemFailed(k) ==
  /\ results' = PushResult(k, FALSE)
  /\ NextItem
  /\ UNCHANGED reply

\* the verb is called without await: the loop goes on while the request is out
AwaitCall_NoAwait(k) ==
  /\ inflight' = inflight \cup {[owner |-> "tool", item |-> k]}
  /\ results' = PushResult(k, TRUE)
  /\ NextItem
  /\ UNCHANGED reply

\* await this.client.<verb>(...): the handler is suspended at the request
AwaitCall(k) ==
  /\ inflight' = inflight \cup {[owner |-> "tool", item |-> k]}
  /\ pc' = "await"
  /\ UNCHANGED <<pos, results, reply>>

\* peeringdb_bulk_<type> is called: results = [], i = 0
BulkHandler(op, its, bs) ==
  /\ pc = "idle"
  /\ tool' = "bulk"
  /\ operation' = op
  /\ items' = its
  /\ batch_size' = bs
  /\ results' = <<>>
  /\ i' = 0
  /\ pc' = "loop"
  /\ UNCHANGED <<objectType, writeOps, apiKey, args, batch, pos, reply, rpc,
                 inflight, calls, trace, delays>>

\* the loop test holds: batch = items.slice(i, i + batch_size)
BatchBegin ==
  /\ pc = "loop"
  /\ tool = "bulk"
  /\ i < Len(items)
  /\ batch' = Slice(Len(items), i, i + batch_size)
  /\ pos' = 1
  /\ pc' = IF batch' = <<>> THEN "batchend" ELSE "item"
  /\ UNCHANGED <<reqVars, i, results, reply, rpc, inflight, calls, trace, delays>>

\* one item of the batch, up to its await or to its recorded failure
ItemStart ==
  /\ pc = "item"
  /\ LET k == batch[pos]
         f == Forward(operation, items[k])
     IN  IF ~f.ok
         THEN /\ ItemFailed(k)
              /\ trace' = trace \o <<[ev |-> "start", item |-> k],
                                     [ev |-> "record", item |-> k]>>
              /\ UNCHANGED <<calls, inflight>>
         ELSE /\ calls' = Append(calls, CallRecord(f.verb, f.id, f.data, k))
              /\ IF validateApiKey
                 THEN /\ AwaitCall(k)
                      /\ trace' = trace \o <<[ev |-> "start", item |-> k],
                                             [ev |-> "call", item |-> k]>>
                 ELSE /\ ItemFailed(k)
                      /\ trace' = trace \o <<[ev |-> "start", item |-> k],
                                             [ev |-> "call", item |-> k],
                                             [ev |-> "record", item |-> k]>>
                      /\ UNCHANGED inflight
  /\ UNCHANGED <<reqVars, i, batch, rpc, delays>>

\* the awaited verb resolves: the item's result is a success
ItemBackendOk ==
  /\ pc = "await"
  /\ tool = "bulk"
  /\ \E c \in inflight :
        /\ c.owner = "tool"
        /\ inflight' = inflight \ {c}
        /\ results' = PushResult(c.item, TRUE)
        /\ trace' = Append(trace, [ev |-> "record", item |-> c.item])
  /\ NextItem
  /\ UNCHANGED <<reqVars, i, batch, reply, rpc, calls, delays>>

\* the rejected verb is called once more before the failure is recorded
ItemBackendErr_Retry ==
  /\ pc = "await"
  /\ tool = "bulk"
  /\ \E c \in inflight :
        /\ c.owner = "tool"
        /\ IF Cardinality({n \in 1..Len(calls) : calls[n].item = c.item}) < 2
           THEN /\ calls' = Append(calls, calls[Len(calls)])
                /\ UNCHANGED <<inflight, pos, pc, results, reply, trace>>
           ELSE /\ inflight' = inflight \ {c}
                /\ ItemFailed(c.item)
                /\ trace' = Append(trace, [ev |-> "record", item |-> c.item])
                /\ UNCHANGED calls
  /\ UNCHANGED <<reqVars, i, batch, rpc, delays>>

\* the awaited verb rejects: the inner catch records the failure
ItemBackendErr ==
  /\ pc = "await"
  /\ tool = "bulk"
  /\ \E c \in inflight :
        /\ c.owner = "tool"
        /\ inflight' = inflight \ {c}
        /\ ItemFailed(c.item)
        /\ trace' = Append(trace, [ev |-> "record", item |-> c.item])
  /\ UNCHANGED <<reqVars, i, batch, rpc, calls, delays>>

\* the batch is through: start the delay, or go to the next loop test
BatchEnd ==
  /\ pc = "batchend"
  /\ IF DelayNeeded
     THEN /\ pc' = "delay"
          /\ delays' = Min(delays + 1, DelayCap)
          /\ UNCHANGED i
     ELSE /\ pc' = "loop"
          /\ i' = NextI
          /\ UNCHANGED delays
  /\ UNCHANGED <<reqVars, batch, pos, results, reply, rpc, inflight, calls, trace>>

\* setTimeout(resolve, 1000) fires
DelayElapsed ==
  /\ pc = "delay"
  /\ pc' = "loop"
  /\ i' = NextI
  /\ UNCHANGED <<reqVars, batch, pos, results, reply, rpc, inflight, calls,
                 trace, delays>>

\* both counts filter on r.success
Count_SuccessOnly(ok) == Cardinality({k \in 1..Len(results) : results[k].success})

\* results.filter(r => r.success).length and results.filter(r => !r.success).length
Count(ok) == Cardinality({k \in 1..Len(results) : results[k].success = ok})

\* the loop test fails: the handler returns the counts and the results
BulkReturn ==
  /\ pc = "loop"
  /\ tool = "bulk"
  /\ ~(i < Len(items))
  /\ reply' = [isError |-> FALSE, kind |-> "bulk",
               successful |-> Count(TRUE), failed |-> Count(FALSE),
               results |-> results]
  /\ pc' = "done"
  /\ UNCHANGED <<reqVars, i, batch, pos, results, rpc, inflight, calls, trace, delays>>

(* ------------------------- collection resource ------------------------ *)

\* the collection resource handler up to await this.client.get(...)
ReadCall ==
  /\ rpc = "idle"
  /\ rpc' = "await"
  /\ inflight' = inflight \cup {[owner |-> "read", item |-> 0]}
  /\ UNCHANGED <<reqVars, pc, i, batch, pos, results, reply, calls, trace, delays>>

\* client.get resolves or rejects: the handler returns or throws
ReadDone ==
  /\ rpc = "await"
  /\ rpc' = "done"
  /\ inflight' = inflight \ {[owner |-> "read", item |-> 0]}
  /\ UNCHANGED <<reqVars, pc, i, batch, pos, results, reply, calls, trace, delays>>

(* --------------------------- specifications --------------------------- *)

\* a call of an individual tool arrives
ToolCall ==
  /\ pc = "idle"
  /\ \E t \in DOMAIN ToolVerb : \E a \in ToolArgs(objectType) : ToolHandler(t, a)

\* a call of a tool that was not registered arrives
ToolNotRegistered ==
  /\ pc = "idle"
  /\ \E t \in DOMAIN ToolVerb : NoToolHandler(t)

\* a call of the bulk tool arrives
BulkCall ==
  /\ pc = "idle"
  /\ \E op \in DOMAIN BulkVerb : \E its \in ItemLists(objectType) :
        \E bs \in BatchSizes : BulkHandler(op, its, bs)

Invoke == ToolCall \/ ToolNotRegistered \/ BulkCall

Step ==
  \/ ToolBackendOk
  \/ ToolBackendErr
  \/ BatchBegin
  \/ ItemStart
  \/ ItemBackendOk
  \/ ItemBackendErr
  \/ BatchEnd
  \/ DelayElapsed
  \/ BulkReturn

Next == Invoke \/ Step

\* one tool request at a time
Spec == Init /\ [][Next]_vars

\* the event loop runs every continuation that is ready; the backend
\* answers or the request times out; the timer fires
FairSpec == Spec /\ WF_vars(Step)

\* a resource read arrives while the tool handler is suspended
ConcNext == Next \/ ReadCall \/ ReadDone

ConcSpec == Init /\ [][ConcNext]_vars

(* ------------------------------ helpers ------------------------------- *)

BulkDone == tool = "bulk" /\ pc = "done"

\* the payload a call was made for
PayloadOf(c) == IF c.item = 0 THEN args ELSE items[c.item]

\* the schema check the handler of t runs on a payload (id taken out first
\* by the update and patch handlers)
PassesValidation(t, payload) ==
  SchemaAccepts(createObjectSchema(config, t),
                IF t = "create" THEN payload ELSE Rest(payload))

\* the sub-operation or tool a call belongs to
KindOf(c) == IF c.item = 0 THEN tool ELSE operation

CallsFor(k) == {n \in 1..Len(calls) : calls[n].item = k}

Events(ev) == {p \in 1..Len(trace) : trace[p].ev = ev}

RecordsBefore(p) == {q \in 1..(p - 1) : trace[q].ev = "record"}

Failed(k) == Len(results) >= k /\ ~results[k].success

\* item j is in the batch being processed and has no result yet
Pending(j) ==
  /\ pc \in {"item", "await"}
  /\ \E q \in pos..Len(batch) : batch[q] = j

CeilDiv(n, b) == (n + b - 1) \div b

(* ------------------------------- claims ------------------------------- *)

\* C1: a bulk run that returns gives one result per input item, entry k
\* being the result recorded for input item k and carrying items[k],
\* whatever mix of successes and failures occurred.
C1_ResultsInInputOrder ==
  BulkDone =>
    /\ Len(reply.results) = Len(items)
    /\ \A k \in 1..Len(reply.results) : reply.results[k].item = items[k]
    /\ \A k \in 1..Len(items) :
          Cardinality({p \in Events("record") : trace[p].item = k}) = 1
    /\ \A p, q \in Events("record") : p < q => trace[p].item < trace[q].item

\* C1 witness: a returned run over three items, two different payloads,
\* with a failure between two successes
C1_Witness ==
  /\ BulkDone
  /\ Len(items) = 3
  /\ items[1] # items[2]
  /\ reply.results[1].success
  /\ ~reply.results[2].success
  /\ reply.results[3].success

\* an item fails whatever the backend answers: its payload fails the schema
\* check, or the client has no key
MustFail(k) == ~Forward(operation, items[k]).ok \/ ~apiKey

\* C2: no step taken inside an item ends the run; a failure is recorded as
\* a result with success = FALSE and leaves the loop where a success would
\* (next item of the batch, else the normal end of the batch); once an item
\* has failed, the batch with items still pending reaches its end with a
\* result for each of its items; and a run
\* that returns has recorded every item that had to fail as failed, has
\* validated every item after it and has dispatched those that passed.
C2_FailureIsolated ==
  /\ [][ (tool = "bulk" /\ pc \in {"item", "await"})
           => /\ pc' \in {"item", "await", "batchend"}
              /\ tool' = "bulk"
              /\ reply' = reply ]_vars
  /\ [][ (Len(results') = Len(results) + 1 /\ ~results'[Len(results')].success)
           => IF pos < Len(batch)
              THEN pc' = "item" /\ pos' = pos + 1
              ELSE pc' = "batchend" ]_vars
  /\ [] ((\E k \in 1..Len(results) : \E j \in (k + 1)..Len(items) :
              Failed(k) /\ Pending(j))
           => <>(pc = "batchend" /\ \A q \in 1..Len(batch) : Len(results) >= batch[q]))
  /\ [] (BulkDone =>
           \A k \in 1..Len(items) :
              MustFail(k) =>
                 /\ Failed(k)
                 /\ \A j \in (k + 1)..Len(items) :
                       /\ Len(results) >= j
                       /\ Forward(operation, items[j]).ok => CallsFor(j) # {})

\* C2 witness: the first item of a two-item batch failed and the second
\* item was dispatched and succeeded
C2_Witness ==
  /\ BulkDone
  /\ Len(batch) = 2
  /\ Failed(batch[1])
  /\ Len(results) >= batch[2]
  /\ results[batch[2]].success

\* C3: every bulk run reaches its return (stated for every batch size the
\* input schema accepts).
C3_BulkTerminates == (tool = "bulk") ~> (pc = "done")

\* C4: a create, update or patch payload that fails the schema check causes
\* no client call, as a tool call and as a bulk item.
C4_ValidationPrecedesDispatch ==
  /\ \A n \in 1..Len(calls) :
        calls[n].verb # "DELETE" =>
           PassesValidation(KindOf(calls[n]), PayloadOf(calls[n]))
  /\ reply.kind = "validation" => calls = <<>>
  /\ (tool = "bulk" /\ operation # "delete") =>
        \A k \in 1..Len(results) :
           ~PassesValidation(operation, items[k]) =>
              CallsFor(k) = {} /\ ~results[k].success

\* C4 witness: a returned bulk create whose first item failed the schema
\* check and whose second item was posted
C4_Witness ==
  /\ BulkDone
  /\ operation = "create"
  /\ Len(items) = 2
  /\ ~PassesValidation("create", items[1])
  /\ Len(calls) = 1
  /\ calls[1].item = 2

\* the fields of a payload other than id satisfy the schema of t
FieldsValid(t, payload) ==
  LET schema == createObjectSchema(config, t)
  IN  SchemaAccepts([schema EXCEPT !.required = @ \ {"id"}], Rest(payload))

\* C5: an update or patch whose payload has an id and otherwise valid
\* fields passes validation and is forwarded to put/patch with the endpoint,
\* that id and the validated fields (tool call and bulk update item).
C5_UpdateForwarded ==
  /\ ( /\ tool \in {"update", "patch"}
       /\ pc \in {"await", "done"}
       /\ IdOf(args) = "good"
       /\ FieldsValid(tool, args) )
     => calls = << CallRecord(ToolVerb[tool], args["id"],
                              SchemaOutput(createObjectSchema(config, tool), Rest(args)),
                              0) >>
  /\ (tool = "bulk" /\ operation = "update") =>
        \A k \in 1..Len(results) :
           (IdOf(items[k]) = "good" /\ FieldsValid("update", items[k]))
              => \E n \in CallsFor(k) : calls[n].verb = "PUT" /\ calls[n].id = "good"

\* C6: no request and no bulk item has more than one client call, one that
\* passed validation has exactly one, and a bulk run never has more calls
\* than items started.
C6_OneCallPerDispatch ==
  /\ tool \in DOMAIN ToolVerb =>
        /\ Len(calls) <= 1
        /\ (pc \in {"await", "done"} /\ Registered(tool) /\ Forward(tool, args).ok)
              => Len(calls) = 1
  /\ tool = "bulk" =>
        /\ \A k \in 1..Len(items) :
              /\ Cardinality(CallsFor(k)) <= 1
              /\ (k <= Len(results) /\ Forward(operation, items[k]).ok)
                    => Cardinality(CallsFor(k)) = 1
        /\ Len(calls) <= Cardinality(Events("start"))

\* C6 witness: a returned bulk run in which a backend call failed and no
\* second call was made for that item
C6_Witness ==
  /\ BulkDone
  /\ apiKey
  /\ \E k \in 1..Len(results) :
        ~results[k].success /\ Cardinality(CallsFor(k)) = 1

\* the backend requests of the tool handler that are outstanding
ToolInflight == {c \in inflight : c.owner = "tool"}

\* C7 (as stated): at most one backend request is outstanding at any
\* instant, over all requests the server is handling.
C7_AtMostOneInFlight == Cardinality(inflight) <= 1

\* C7 (amended): one tool handler has at most one backend request
\* outstanding, only while it is suspended at that call (none during the
\* inter-batch delay), and between two calls of a bulk run lies the record
\* of the earlier one's result.
C7_OneCallPerRun ==
  /\ Cardinality(ToolInflight) <= 1
  /\ ToolInflight # {} => pc = "await"
  /\ \A p, q \in Events("call") :
        p < q => \E r \in Events("record") :
                    p < r /\ r < q /\ trace[r].item = trace[p].item

\* C7 witness: the call for the second item of a bulk run is outstanding
\* while a resource read is outstanding too
C7_Witness ==
  /\ tool = "bulk"
  /\ pc = "await"
  /\ rpc = "await"
  /\ Cardinality(Events("call")) = 2

\* C8: for a batch size of at least 1, a delay runs only while items remain,
\* the batch after a delay is not empty, the delays so far are one per
\* finished batch that left items, and a returned run over n items had
\* ceil(n / batch_size) - 1 delays (none for n = 0).
C8_DelaysBetweenBatches ==
  (tool = "bulk" /\ batch_size >= 1) =>
    /\ pc = "delay" =>
          /\ Len(results) < Len(items)
          /\ Slice(Len(items), NextI, NextI + batch_size) # <<>>
    /\ pc = "loop" =>
          delays = IF Len(results) < Len(items)
                   THEN CeilDiv(Len(results), batch_size)
                   ELSE Max(CeilDiv(Len(items), batch_size) - 1, 0)
    /\ pc = "done" =>
          delays = IF Len(items) = 0 THEN 0
                   ELSE CeilDiv(Len(items), batch_size) - 1

\* C8 witness: three items in batches of two returned after one delay
C8_Witness ==
  /\ BulkDone
  /\ Len(items) = 3
  /\ batch_size = 2
  /\ delays = 1

\* C9: items are started in input order, one at a time: when item k is
\* started or called, exactly the items before k have a recorded result;
\* and while a batch has ended or the delay runs, every item of that batch
\* has its result.
C9_StrictOrder ==
  /\ \A p \in 1..Len(trace) :
        trace[p].ev \in {"start", "call"} =>
           {trace[q].item : q \in RecordsBefore(p)} = 1..(trace[p].item - 1)
  /\ \A p, q \in 1..Len(trace) : p < q => trace[p].item <= trace[q].item
  /\ (tool = "bulk" /\ pc \in {"item", "await"}) => Len(results) = batch[pos] - 1
  /\ pc \in {"batchend", "delay"} =>
        \A q \in 1..Len(batch) : Len(results) >= batch[q]

\* C9 witness: the first item of the second batch is at its backend call
\* after both items of the first batch were recorded
C9_Witness ==
  /\ tool = "bulk"
  /\ pc = "await"
  /\ batch_size = 2
  /\ i = 2
  /\ Len(results) = 2
  /\ delays = 1

startsWith(s, p) == Len(p) <= Len(s) /\ SubSeq(s, 1, Len(p)) = p
endsWith(s, p) == Len(p) <= Len(s) /\ SubSeq(s, Len(s) - Len(p) + 1, Len(s)) = p
includes(s, p) == \E k \in 1..(Len(s) - Len(p) + 1) : SubSeq(s, k, k + Len(p) - 1) = p

\* the characters of every field name of the registry, of id, and of the
\* boundary names that match more than one rule
Chars ==
  [
    address1 |-> <<"a", "d", "d", "r", "e", "s", "s", "1">>,
    address2 |-> <<"a", "d", "d", "r", "e", "s", "s", "2">>,
    aka |-> <<"a", "k", "a">>,
    asn |-> <<"a", "s", "n">>,
    avail_atm |-> <<"a", "v", "a", "i", "l", "_", "a", "t", "m">>,
    avail_ethernet |-> <<"a", "v", "a", "i", "l", "_", "e", "t", "h", "e", "r", "n", "e", "t">>,
    avail_sonet |-> <<"a", "v", "a", "i", "l", "_", "s", "o", "n", "e", "t">>,
    city |-> <<"c", "i", "t", "y">>,
    clli |-> <<"c", "l", "l", "i">>,
    country |-> <<"c", "o", "u", "n", "t", "r", "y">>,
    descr |-> <<"d", "e", "s", "c", "r">>,
    dot1q_support |-> <<"d", "o", "t", "1", "q", "_", "s", "u", "p", "p", "o", "r", "t">>,
    email |-> <<"e", "m", "a", "i", "l">>,
    fac_id |-> <<"f", "a", "c", "_", "i", "d">>,
    info_ipv6 |-> <<"i", "n", "f", "o", "_", "i", "p", "v", "6">>,
    info_multicast |-> <<"i", "n", "f", "o", "_", "m", "u", "l", "t", "i", "c", "a", "s", "t">>,
    info_prefixes4 |-> <<"i", "n", "f", "o", "_", "p", "r", "e", "f", "i", "x", "e", "s", "4">>,
    info_prefixes6 |-> <<"i", "n", "f", "o", "_", "p", "r", "e", "f", "i", "x", "e", "s", "6">>,
    info_ratio |-> <<"i", "n", "f", "o", "_", "r", "a", "t", "i", "o">>,
    info_scope |-> <<"i", "n", "f", "o", "_", "s", "c", "o", "p", "e">>,
    info_traffic |-> <<"i", "n", "f", "o", "_", "t", "r", "a", "f", "f", "i", "c">>,
    info_type |-> <<"i", "n", "f", "o", "_", "t", "y", "p", "e">>,
    info_unicast |-> <<"i", "n", "f", "o", "_", "u", "n", "i", "c", "a", "s", "t">>,
    ipaddr4 |-> <<"i", "p", "a", "d", "d", "r", "4">>,
    ipaddr6 |-> <<"i", "p", "a", "d", "d", "r", "6">>,
    irr_as_set |-> <<"i", "r", "r", "_", "a", "s", "_", "s", "e", "t">>,
    is_rs_peer |-> <<"i", "s", "_", "r", "s", "_", "p", "e", "e", "r">>,
    ix_id |-> <<"i", "x", "_", "i", "d">>,
    ixlan_id |-> <<"i", "x", "l", "a", "n", "_", "i", "d">>,
    latitude |-> <<"l", "a", "t", "i", "t", "u", "d", "e">>,
    local_asn |-> <<"l", "o", "c", "a", "l", "_", "a", "s", "n">>,
    longitude |-> <<"l", "o", "n", "g", "i", "t", "u", "d", "e">>,
    looking_glass |-> <<"l", "o", "o", "k", "i", "n", "g", "_", "g", "l", "a", "s", "s">>,
    media |-> <<"m", "e", "d", "i", "a">>,
    mtu |-> <<"m", "t", "u">>,
    name |-> <<"n", "a", "m", "e">>,
    name_long |-> <<"n", "a", "m", "e", "_", "l", "o", "n", "g">>,
    net_id |-> <<"n", "e", "t", "_", "i", "d">>,
    notes |-> <<"n", "o", "t", "e", "s">>,
    notes_private |-> <<"n", "o", "t", "e", "s", "_", "p", "r", "i", "v", "a", "t", "e">>,
    npanxx |-> <<"n", "p", "a", "n", "x", "x">>,
    operational |-> <<"o", "p", "e", "r", "a", "t", "i", "o", "n", "a", "l">>,
    org_id |-> <<"o", "r", "g", "_", "i", "d">>,
    phone |-> <<"p", "h", "o", "n", "e">>,
    policy_contracts |-> <<"p", "o", "l", "i", "c", "y", "_", "c", "o", "n", "t", "r", "a", "c", "t", "s">>,
    policy_email |-> <<"p", "o", "l", "i", "c", "y", "_", "e", "m", "a", "i", "l">>,
    policy_general |-> <<"p", "o", "l", "i", "c", "y", "_", "g", "e", "n", "e", "r", "a", "l">>,
    policy_locations |-> <<"p", "o", "l", "i", "c", "y", "_", "l", "o", "c", "a", "t", "i", "o", "n", "s">>,
    policy_phone |-> <<"p", "o", "l", "i", "c", "y", "_", "p", "h", "o", "n", "e">>,
    policy_ratio |-> <<"p", "o", "l", "i", "c", "y", "_", "r", "a", "t", "i", "o">>,
    policy_url |-> <<"p", "o", "l", "i", "c", "y", "_", "u", "r", "l">>,
    prefix |-> <<"p", "r", "e", "f", "i", "x">>,
    proto_ipv6 |-> <<"p", "r", "o", "t", "o", "_", "i", "p", "v", "6">>,
    proto_multicast |-> <<"p", "r", "o", "t", "o", "_", "m", "u", "l", "t", "i", "c", "a", "s", "t">>,
    proto_unicast |-> <<"p", "r", "o", "t", "o", "_", "u", "n", "i", "c", "a", "s", "t">>,
    protocol |-> <<"p", "r", "o", "t", "o", "c", "o", "l">>,
    region_continent |-> <<"r", "e", "g", "i", "o", "n", "_", "c", "o", "n", "t", "i", "n", "e", "n", "t">>,
    rencode |-> <<"r", "e", "n", "c", "o", "d", "e">>,
    role |-> <<"r", "o", "l", "e">>,
    route_server |-> <<"r", "o", "u", "t", "e", "_", "s", "e", "r", "v", "e", "r">>,
    rs_asn |-> <<"r", "s", "_", "a", "s", "n">>,
    sales_email |-> <<"s", "a", "l", "e", "s", "_", "e", "m", "a", "i", "l">>,
    sales_phone |-> <<"s", "a", "l", "e", "s", "_", "p", "h", "o", "n", "e">>,
    speed |-> <<"s", "p", "e", "e", "d">>,
    state |-> <<"s", "t", "a", "t", "e">>,
    tech_email |-> <<"t", "e", "c", "h", "_", "e", "m", "a", "i", "l">>,
    tech_phone |-> <<"t", "e", "c", "h", "_", "p", "h", "o", "n", "e">>,
    url |-> <<"u", "r", "l">>,
    url_stats |-> <<"u", "r", "l", "_", "s", "t", "a", "t", "s">>,
    visible |-> <<"v", "i", "s", "i", "b", "l", "e">>,
    vlan |-> <<"v", "l", "a", "n">>,
    website |-> <<"w", "e", "b", "s", "i", "t", "e">>,
    zipcode |-> <<"z", "i", "p", "c", "o", "d", "e">>,
    id |-> <<"i", "d">>,
    unknown_field |-> <<"u", "n", "k", "n", "o", "w", "n", "_", "f", "i", "e", "l", "d">>,
    status |-> <<"s", "t", "a", "t", "u", "s">>,
    email_id |-> <<"e", "m", "a", "i", "l", "_", "i", "d">>,
    phone_email |-> <<"p", "h", "o", "n", "e", "_", "e", "m", "a", "i", "l">>,
    url_phone |-> <<"u", "r", "l", "_", "p", "h", "o", "n", "e">>,
    proto_url |-> <<"p", "r", "o", "t", "o", "_", "u", "r", "l">>,
    avail_ipaddr |-> <<"a", "v", "a", "i", "l", "_", "i", "p", "a", "d", "d", "r">>,
    info_prefixes |-> <<"i", "n", "f", "o", "_", "p", "r", "e", "f", "i", "x", "e", "s">>,
    asn_id |-> <<"a", "s", "n", "_", "i", "d">> ]

FieldNames == DOMAIN Chars

\* the value sets of the z.enum rules
RoleValues == {"Abuse", "Administrative", "Maintenance", "NOC", "Policy",
               "Public Relations", "Sales", "Technical"}
VisibleValues == {"Users", "Public", "Private"}
StatusValues == {"ok", "pending", "deleted"}
InfoTypeValues == {"Content", "Cable/DSL/ISP", "Enterprise",
                   "Educational/Research", "Government", "Non-Profit",
                   "Route Server", "Network Services", "Online Gaming"}
InfoScopeValues == {"Global", "Regional", "National", "Local"}
PolicyGeneralValues == {"Open", "Selective", "Restrictive", "No"}

\* a zod schema: its kind, its describe() text, the bounds of a range and
\* the values of an enumeration
Sch(kind, describe, lo, hi, values) ==
  [kind |-> kind, describe |-> describe, lo |-> lo, hi |-> hi, values |-> values]

\* createFieldSchema after its first if statement (the id test)
createFieldSchemaTail(fieldName) ==
  LET s == Chars[fieldName]
  IN  IF fieldName = "asn"
        THEN Sch("posint", "Autonomous System Number", 0, 0, {})
      ELSE IF includes(s, <<"e", "m", "a", "i", "l">>)
        THEN Sch("email", "Email address", 0, 0, {})
      ELSE IF includes(s, <<"p", "h", "o", "n", "e">>)
        THEN Sch("string", "Phone number", 0, 0, {})
      ELSE IF includes(s, <<"u", "r", "l">>) \/ fieldName = "website"
              \/ fieldName = "looking_glass"
        THEN Sch("url", "URL", 0, 0, {})
      ELSE IF fieldName = "latitude"
        THEN Sch("range", "Latitude coordinate", -90, 90, {})
      ELSE IF fieldName = "longitude"
        THEN Sch("range", "Longitude coordinate", -180, 180, {})
      ELSE IF \/ startsWith(s, <<"p", "r", "o", "t", "o", "_">>)
              \/ startsWith(s, <<"i", "n", "f", "o", "_">>)
              \/ startsWith(s, <<"a", "v", "a", "i", "l", "_">>)
              \/ fieldName = "is_rs_peer" \/ fieldName = "dot1q_support"
              \/ fieldName = "operational"
        THEN Sch("boolean", "flag", 0, 0, {})
      ELSE IF \/ fieldName = "speed" \/ fieldName = "mtu" \/ fieldName = "vlan"
              \/ fieldName = "rs_asn" \/ fieldName = "local_asn"
              \/ startsWith(s, <<"i", "n", "f", "o", "_", "p", "r", "e", "f",
                                 "i", "x", "e", "s">>)
        THEN Sch("nonnegint", "number", 0, 0, {})
      ELSE IF includes(s, <<"i", "p", "a", "d", "d", "r">>) \/ fieldName = "prefix"
        THEN Sch("string", "IP address or prefix", 0, 0, {})
      ELSE IF fieldName = "role"
        THEN Sch("enum", "Contact role", 0, 0, RoleValues)
      ELSE IF fieldName = "visible"
        THEN Sch("enum", "Visibility level", 0, 0, VisibleValues)
      ELSE IF fieldName = "status"
        THEN Sch("enum", "Object status", 0, 0, StatusValues)
      ELSE IF fieldName = "info_type"
        THEN Sch("enum", "Network type", 0, 0, InfoTypeValues)
      ELSE IF fieldName = "info_scope"
        THEN Sch("enum", "Network scope", 0, 0, InfoScopeValues)
      ELSE IF fieldName = "policy_general"
        THEN Sch("enum", "General peering policy", 0, 0, PolicyGeneralValues)
      ELSE Sch("string", "field", 0, 0, {})

\* createFieldSchema with the email test moved in front of the id test
createFieldSchema_EmailFirst(fieldName, isRequired) ==
  IF includes(Chars[fieldName], <<"e", "m", "a", "i", "l">>)
    THEN Sch("email", "Email address", 0, 0, {})
  ELSE IF endsWith(Chars[fieldName], <<"_", "i", "d">>) \/ fieldName = "id"
    THEN Sch("union", "ID", 0, 0, {})
  ELSE createFieldSchemaTail(fieldName)

\* createFieldSchema: the chain of if statements, in the order of the
\* source; the body never reads isRequired
createFieldSchema(fieldName, isRequired) ==
  IF endsWith(Chars[fieldName], <<"_", "i", "d">>) \/ fieldName = "id"
    THEN Sch("union", "ID", 0, 0, {})
  ELSE createFieldSchemaTail(fieldName)

\* a value of a payload field: a string s, an integer n, or a boolean
\* (n = 1 for true, n = 0 for false)
Str(s) == [t |-> "string", s |-> s, n |-> 0]
Num(n) == [t |-> "number", s |-> "", n |-> n]
Bool(b) == [t |-> "boolean", s |-> "", n |-> IF b THEN 1 ELSE 0]

\* the strings z.string().email() and z.string().url() accept, among the
\* strings of FieldValues
EmailStrings == {"noc@example.net"}
UrlStrings == {"https://example.net/"}

EnumStrings == RoleValues \cup VisibleValues \cup StatusValues \cup InfoTypeValues
               \cup InfoScopeValues \cup PolicyGeneralValues

\* the values a payload field is drawn from
FieldValues ==
  {Str(s) : s \in EnumStrings \cup EmailStrings \cup UrlStrings \cup {"Maple IX"}}
  \cup {Num(n) : n \in {-181, -180, -91, -90, -1, 0, 1, 90, 91, 180, 181}}
  \cup {Bool(b) : b \in BOOLEAN}

\* schema.safeParse(v).success for a field schema
Accepts(schema, v) ==
  CASE schema.kind = "union"     -> v.t \in {"string", "number"}
    [] schema.kind = "posint"    -> v.t = "number" /\ v.n > 0
    [] schema.kind = "email"     -> v.t = "string" /\ v.s \in EmailStrings
    [] schema.kind = "string"    -> v.t = "string"
    [] schema.kind = "url"       -> v.t = "string" /\ v.s \in UrlStrings
    [] schema.kind = "range"     -> v.t = "number" /\ schema.lo <= v.n /\ v.n <= schema.hi
    [] schema.kind = "boolean"   -> v.t = "boolean"
    [] schema.kind = "nonnegint" -> v.t = "number" /\ v.n >= 0
    [] schema.kind = "enum"      -> v.t = "string" /\ v.s \in schema.values

\* the value of field k as the object schema sees it: "good" when the rule
\* of k accepts it
FieldAccepts(k, v) == Accepts(createFieldSchema(k, TRUE), v)

Abs(data) ==
  [k \in DOMAIN data |-> IF FieldAccepts(k, data[k]) THEN "good" ELSE "bad"]

(* ---------------- createFieldSchema as a specification ----------------- *)

\* a call of function t with arguments a on object type and operation op;
\* the other variables of the module stay as Init leaves them
PureInit(t, type, op, a) ==
  /\ objectType = type
  /\ writeOps = ShippedOperations
  /\ apiKey = TRUE
  /\ tool = t
  /\ args = a
  /\ operation = op
  /\ items = <<>>
  /\ batch_size = 0
  /\ pc = "idle"
  /\ i = 0
  /\ batch = <<>>
  /\ pos = 0
  /\ results = <<>>
  /\ reply = [isError |-> FALSE, kind |-> "none"]
  /\ rpc = "idle"
  /\ inflight = {}
  /\ calls = <<>>
  /\ trace = <<>>
  /\ delays = 0

\* what a pure function leaves alone: everything but pc and reply
pureVars == <<objectType, writeOps, apiKey, tool, args, operation, items,
              batch_size, i, batch, pos, results, rpc, inflight, calls,
              trace, delays>>

FieldInit ==
  \E n \in FieldNames, r \in BOOLEAN :
    PureInit("createFieldSchema", "ixpfx", "none", [fieldName |-> n, isRequired |-> r])

\* one call createFieldSchema(fieldName, isRequired)
FieldRule ==
  /\ pc = "idle"
  /\ tool = "createFieldSchema"
  /\ pc' = "done"
  /\ reply' = [isError |-> FALSE, kind |-> "schema",
               schema |-> createFieldSchema(args.fieldName, args.isRequired)]
  /\ UNCHANGED pureVars

FieldNext == FieldRule

FieldSpec == FieldInit /\ [][FieldNext]_vars

\* row m of the rule table matches the name
RuleMatches(m, fieldName) ==
  LET s == Chars[fieldName]
  IN  CASE m = 1  -> fieldName = "id" \/ endsWith(s, <<"_", "i", "d">>)
        [] m = 2  -> fieldName = "asn"
        [] m = 3  -> includes(s, <<"e", "m", "a", "i", "l">>)
        [] m = 4  -> includes(s, <<"p", "h", "o", "n", "e">>)
        [] m = 5  -> includes(s, <<"u", "r", "l">>)
                     \/ fieldName \in {"website", "looking_glass"}
        [] m = 6  -> fieldName \in {"latitude", "longitude"}
        [] m = 7  -> \/ startsWith(s, <<"p", "r", "o", "t", "o", "_">>)
                     \/ startsWith(s, <<"i", "n", "f", "o", "_">>)
                     \/ startsWith(s, <<"a", "v", "a", "i", "l", "_">>)
                     \/ fieldName \in {"is_rs_peer", "dot1q_support", "operational"}
        [] m = 8  -> \/ fieldName \in {"speed", "mtu", "vlan", "rs_asn", "local_asn"}
                     \/ startsWith(s, <<"i", "n", "f", "o", "_", "p", "r", "e",
                                        "f", "i", "x", "e", "s">>)
        [] m = 9  -> includes(s, <<"i", "p", "a", "d", "d", "r">>) \/ fieldName = "prefix"
        [] m = 10 -> fieldName \in {"role", "visible", "status", "info_type",
                                    "info_scope", "policy_general"}
        [] m = 11 -> TRUE

\* the row of the rule table a schema comes from, by its describe() text
RuleOf(schema) ==
  CASE schema.describe = "ID" -> 1
    [] schema.describe = "Autonomous System Number" -> 2
    [] schema.describe = "Email address" -> 3
    [] schema.describe = "Phone number" -> 4
    [] schema.describe = "URL" -> 5
    [] schema.describe \in {"Latitude coordinate", "Longitude coordinate"} -> 6
    [] schema.describe = "flag" -> 7
    [] schema.describe = "number" -> 8
    [] schema.describe = "IP address or prefix" -> 9
    [] schema.describe \in {"Contact role", "Visibility level", "Object status",
                            "Network type", "Network scope",
                            "General peering policy"} -> 10
    [] schema.describe = "field" -> 11

\* the rows of the rule table
RuleRows == 1..11

\* the lowest-numbered row that matches
FirstMatch(fieldName) ==
  CHOOSE m \in RuleRows :
    RuleMatches(m, fieldName) /\ \A j \in 1..(m - 1) : ~RuleMatches(j, fieldName)

\* rows of the table that match the name
MatchingRules(fieldName) == {m \in RuleRows : RuleMatches(m, fieldName)}

\* C19: the rule of a field name is a function of the name alone (the same
\* for either value of isRequired) and is the lowest-numbered row of the
\* 11-row table that matches the name; tech_email gets the email rule, and
\* email_id, which contains email and ends in _id, gets the identifier rule.
C19_FirstMatchingRule ==
  (tool = "createFieldSchema" /\ pc = "done") =>
    /\ Join(Chars[args.fieldName]) = args.fieldName
    /\ reply.schema = createFieldSchema(args.fieldName, ~args.isRequired)
    /\ RuleOf(reply.schema) = FirstMatch(args.fieldName)
    /\ (args.fieldName = "tech_email" => reply.schema.kind = "email")
    /\ (args.fieldName = "email_id" => reply.schema.kind = "union")

\* a name that matches the identifier, the email and the default row got
\* the identifier rule
C19_Witness ==
  /\ tool = "createFieldSchema" /\ pc = "done"
  /\ args.fieldName = "email_id"
  /\ {1, 3} \subseteq MatchingRules(args.fieldName)
  /\ reply.schema.kind = "union"

(* ======================================================================= *)
(* validateObjectData on payloads of field values                          *)
(* ======================================================================= *)

\* the ZodError issues of schema.parse(data): a required key that is
\* missing, and a key of the schema whose value its rule rejects
SchemaIssues(schema, data) ==
  {[path |-> k, message |-> "Required"] : k \in schema.required \ DOMAIN data}
  \cup {[path |-> k, message |-> "Invalid"] :
          k \in {f \in (schema.required \cup schema.optional) \cap DOMAIN data :
                   data[f] # "good"}}

\* validateObjectData(objectType, data, operation) for a payload of field
\* values: the parsed payload, or the issues the thrown message lists
validateObject(type, data, op) ==
  LET cfg    == PEERINGDB_OBJECTS[type]
      schema == createObjectSchema(cfg, op)
      r      == validateObjectData(cfg, Abs(data), op)
  IN  [isError |-> ~r.ok,
       kind    |-> "validated",
       data    |-> Restrict(data, DOMAIN r.data),
       issues  |-> IF r.ok THEN {} ELSE SchemaIssues(schema, Abs(data))]

\* the first value of FieldValues the rule of field k accepts
GoodValue(k) == CHOOSE v \in FieldValues : FieldAccepts(k, v)

\* a payload with an id and every required field, each with an accepted value
BasePayload(type) ==
  [k \in {"id"} \cup PEERINGDB_OBJECTS[type].requiredFields |-> GoodValue(k)]

\* data with key k set to v
WithField(data, k, v) ==
  [f \in (DOMAIN data) \cup {k} |-> IF f = k THEN v ELSE data[f]]

\* the payloads validateObjectData is called with: the base payload, with at
\* most one field set to any value and at most one key of the base left out
ValidateInputs(type) ==
  LET base == BasePayload(type)
      sets == {base} \cup {WithField(base, k, v) : k \in ArgKeys(type), v \in FieldValues}
  IN  {Restrict(d, (DOMAIN d) \ drop) :
         d \in sets, drop \in {{}} \cup {{f} : f \in DOMAIN base}}

ValidateOperations == {"create", "update", "patch"}

ValidateInit ==
  \E type \in getObjectTypes, op \in ValidateOperations :
    \E data \in ValidateInputs(type) :
      PureInit("validateObjectData", type, op, data)

\* one call validateObjectData(objectType, args, operation)
Validate ==
  /\ pc = "idle"
  /\ tool = "validateObjectData"
  /\ pc' = "done"
  /\ reply' = validateObject(objectType, args, operation)
  /\ UNCHANGED pureVars

ValidateNext == Validate

ValidateSpec == ValidateInit /\ [][ValidateNext]_vars

Validated == tool = "validateObjectData" /\ pc = "done"

\* the keys of the schema built for the call
SchemaKeys ==
  LET schema == createObjectSchema(PEERINGDB_OBJECTS[objectType], operation)
  IN  schema.required \cup schema.optional

\* the fields the error message names
IssuePaths == {e.path : e \in reply.issues}

\* C11: a payload that holds a field absent from the built schema is
\* rejected; the field is never silently dropped.
C11_UnknownFieldRejected ==
  (Validated /\ (DOMAIN args) \ SchemaKeys # {}) => reply.isError

\* C12: validating a create or full-update payload that lacks a required
\* field f of the type fails, with an error that names f.
C12_MissingRequiredNamed ==
  (Validated /\ operation \in {"create", "update"}) =>
    \A f \in PEERINGDB_OBJECTS[objectType].requiredFields \ DOMAIN args :
      /\ reply.isError
      /\ [path |-> f, message |-> "Required"] \in reply.issues

\* a full-update payload with an id and without one required field failed
\* with an error that names the field
C12_Witness ==
  /\ Validated /\ operation = "update" /\ objectType = "net"
  /\ "id" \in DOMAIN args /\ "asn" \notin DOMAIN args
  /\ reply.isError
  /\ "asn" \in IssuePaths

\* the fields of the type's required + optional union
UnionFields(type) ==
  PEERINGDB_OBJECTS[type].requiredFields \cup PEERINGDB_OBJECTS[type].optionalFields

\* every field of the payload carries a value its rule accepts
AllAccepted == \A k \in DOMAIN args : FieldAccepts(k, args[k])

\* C13: the partial-update schema is a required id plus every field of the
\* required + optional union, each optional: a patch payload of just an id
\* is accepted, one without id is rejected, and an accepted value for any
\* field of the union is accepted and kept in the validated payload.
C13_PatchSchemaIsUnion ==
  (Validated /\ operation = "patch") =>
    /\ "id" \notin DOMAIN args => reply.isError
    /\ (DOMAIN args = {"id"} /\ AllAccepted) => ~reply.isError
    /\ ("id" \in DOMAIN args /\ AllAccepted) =>
         /\ ~reply.isError
         /\ \A k \in (DOMAIN args) \cap UnionFields(objectType) :
              k \in DOMAIN reply.data /\ reply.data[k] = args[k]

\* the fields createFieldSchema has a z.enum for, and the value set of each
EnumFields == {"role", "visible", "status", "info_type", "info_scope", "policy_general"}

EnumValues(k) ==
  CASE k = "role"           -> RoleValues
    [] k = "visible"        -> VisibleValues
    [] k = "status"         -> StatusValues
    [] k = "info_type"      -> InfoTypeValues
    [] k = "info_scope"     -> InfoScopeValues
    [] k = "policy_general" -> PolicyGeneralValues

\* C20: in every schema that contains one of the six enumeration fields,
\* the field accepts every value of its value set and rejects every other
\* value.
C20_EnumFieldsValidated ==
  Validated =>
    \A k \in (DOMAIN args) \cap EnumFields \cap SchemaKeys :
      (args[k].t = "string" /\ args[k].s \in EnumValues(k)) <=> k \notin IssuePaths

(* ======================================================================= *)
(* What the tool handlers return                                           *)
(* ======================================================================= *)

\* the positions of a tool handler: before the call, inside the handler,
\* and returned
HandlerPositions == {"idle", "await", "loop", "item", "batchend", "delay", "done"}

\* C14: no error leaves a write tool handler as an uncaught fault.  An
\* individual handler that does not succeed returns isError with the
\* message of its cause: validation failure, missing credential or backend
\* error; only a resolved backend call gives a success reply.  The bulk
\* handler returns its summary, in which every item that failed validation
\* or had no credential is a result with success = FALSE.
C14_StructuredFailure ==
  /\ pc \in HandlerPositions
  /\ (tool \in DOMAIN ToolVerb /\ pc = "done" /\ Registered(tool)) =>
       /\ reply.kind \in {"ok", "validation", "credential", "backend"}
       /\ reply.isError <=> reply.kind # "ok"
       /\ ~Forward(tool, args).ok => reply.kind = "validation"
       /\ (Forward(tool, args).ok /\ ~apiKey) => reply.kind = "credential"
       /\ (Forward(tool, args).ok /\ apiKey) => reply.kind \in {"ok", "backend"}
  /\ BulkDone =>
       /\ reply.kind = "bulk" /\ ~reply.isError
       /\ Len(reply.results) = Len(items)
       /\ \A k \in 1..Len(items) : MustFail(k) => ~reply.results[k].success

\* a bulk run returned its summary holding an item that failed validation
\* and an item that the backend rejected, both as failed results
C14_Witness ==
  /\ BulkDone
  /\ apiKey
  /\ \E k \in 1..Len(items) : ~MustFail(k) /\ ~reply.results[k].success
  /\ \E k \in 1..Len(items) : MustFail(k) /\ ~reply.results[k].success

\* C15: the counts of a bulk reply agree with its results: successfulCount
\* is the number of results with success = TRUE, failedCount the number
\* with success = FALSE, and their sum is the number of input items.
C15_CountsConsistent ==
  BulkDone =>
    /\ reply.successful = Cardinality({k \in 1..Len(reply.results) : reply.results[k].success})
    /\ reply.failed = Cardinality({k \in 1..Len(reply.results) : ~reply.results[k].success})
    /\ reply.successful + reply.failed = Len(items)

\* a run of three items returned with successes and failures
C15_Witness ==
  /\ BulkDone
  /\ Len(items) = MaxItems
  /\ reply.successful >= 1
  /\ reply.failed >= 1

(* ======================================================================= *)
(* Query parameters: parseResourceParams and validateQueryParams           *)
(* ======================================================================= *)

VALID_QUERY_MODIFIERS == {"contains", "startswith", "lt", "lte", "gt", "gte", "in"}

VALID_QUERY_PARAMS == {"limit", "skip", "depth", "fields", "since"}

QueryKeys == {"limit", "skip", "depth", "since", "fields", "asn", "asn__gte",
              "asn__bogus", "asn__in", "name__contains", "__in"}

RawValues == {"10", "5", "abc", "5abc", "-3", "", " 7", "1,2", "a, b"}

\* a parameter value: a string s, an integer n, or a list l of strings
QStr(s) == [t |-> "string", s |-> s, n |-> 0, l |-> <<>>]
QNum(n) == [t |-> "number", s |-> "", n |-> n, l |-> <<>>]
QList(l) == [t |-> "list", s |-> "", n |-> 0, l |-> l]

\* the query strings of the model: at most two keys, each with a raw value
RawParams ==
  UNION {[K -> RawValues] : K \in {S \in SUBSET QueryKeys : Cardinality(S) <= 2}}

\* uri.searchParams as a map from key to string value
SearchParams(raw) == [k \in DOMAIN raw |-> QStr(raw[k])]

DigitChars == {"0", "1", "2", "3", "4", "5", "6", "7", "8", "9"}

DigitValue(c) ==
  CASE c = "0" -> 0 [] c = "1" -> 1 [] c = "2" -> 2 [] c = "3" -> 3 [] c = "4" -> 4
    [] c = "5" -> 5 [] c = "6" -> 6 [] c = "7" -> 7 [] c = "8" -> 8 [] c = "9" -> 9

RECURSIVE TrimStart(_)
TrimStart(s) == IF s # <<>> /\ Head(s) = " " THEN TrimStart(Tail(s)) ELSE s

RECURSIVE TrimEnd(_)
TrimEnd(s) ==
  IF s # <<>> /\ s[Len(s)] = " " THEN TrimEnd(SubSeq(s, 1, Len(s) - 1)) ELSE s

\* String.prototype.trim
trim(s) == TrimEnd(TrimStart(s))

\* the number the leading digits of s spell, after acc
RECURSIVE DigitsValue(_, _)
DigitsValue(s, acc) ==
  IF s = <<>> \/ Head(s) \notin DigitChars THEN acc
  ELSE DigitsValue(Tail(s), acc * 10 + DigitValue(Head(s)))

\* parseInt(value, 10): leading white space is skipped, a sign is read, and
\* the digits up to the first other character are the number; NaN when no
\* digit is there
parseInt(s) ==
  LET t    == TrimStart(s)
      sign == IF t # <<>> /\ Head(t) = "-" THEN -1 ELSE 1
      u    == IF t # <<>> /\ Head(t) \in {"-", "+"} THEN Tail(t) ELSE t
  IN  IF u = <<>> \/ Head(u) \notin DigitChars
      THEN [nan |-> TRUE, n |-> 0]
      ELSE [nan |-> FALSE, n |-> sign * DigitsValue(u, 0)]

\* value.split(',')
RECURSIVE split(_)
split(s) ==
  IF \E p \in 1..Len(s) : s[p] = ","
  THEN LET p == CHOOSE q \in 1..Len(s) : s[q] = "," /\ \A r \in 1..(q - 1) : s[r] # ","
       IN  <<SubSeq(s, 1, p - 1)>> \o split(SubSeq(s, p + 1, Len(s)))
  ELSE <<s>>

\* parseResourceParams: limit, skip, depth and since are set to the parsed
\* integer and left unset when parseInt gives NaN; a key ending in __in gets
\* the list of the trimmed pieces; any other key gets the string
parseResourceParams(searchParams) ==
  LET numeric == {"limit", "skip", "depth", "since"}
      kept    == {key \in DOMAIN searchParams :
                    key \in numeric => ~parseInt(QueryChars[searchParams[key].s]).nan}
  IN  [key \in kept |->
         LET value == QueryChars[searchParams[key].s]
         IN  IF key \in numeric
               THEN QNum(parseInt(value).n)
             ELSE IF endsWith(QueryChars[key], <<"_", "_", "i", "n">>)
               THEN LET parts == split(value)
                    IN  QList([p \in 1..Len(parts) |-> Join(trim(parts[p]))])
             ELSE searchParams[key]]

\* key.match(/^(.+)__(.+)$/): the first group is greedy, so the key is cut
\* at its last "__" that leaves a character on both sides
ModifierMatch(key) ==
  LET s    == QueryChars[key]
      cuts == {p \in 2..(Len(s) - 2) : s[p] = "_" /\ s[p + 1] = "_"}
  IN  IF cuts = {}
      THEN [matched |-> FALSE, fieldName |-> "", modifier |-> ""]
      ELSE LET p == CHOOSE q \in cuts : \A r \in cuts : r <= q
           IN  [matched   |-> TRUE,
                fieldName |-> Join(SubSeq(s, 1, p - 1)),
                modifier  |-> Join(SubSeq(s, p + 2, Len(s)))]

\* validateQueryParams without its last assignment: a key that is neither a
\* standard parameter nor a field with a valid modifier is left out
validateQueryParams_Gate(params) ==
  LET kept == {key \in DOMAIN params :
                 \/ key \in VALID_QUERY_PARAMS
                 \/ /\ ModifierMatch(key).matched
                    /\ ModifierMatch(key).modifier \in VALID_QUERY_MODIFIERS}
  IN  [key \in kept |-> params[key]]

\* validateQueryParams: each of the three branches of the loop body is
\* validated[key] = value
validateQueryParams(params) ==
  [key \in DOMAIN params |->
     IF key \in VALID_QUERY_PARAMS THEN params[key]
     ELSE IF /\ ModifierMatch(key).matched
             /\ ModifierMatch(key).modifier \in VALID_QUERY_MODIFIERS
       THEN params[key]
     ELSE params[key]]

QueryInit ==
  \E t \in {"validateQueryParams", "resource"}, raw \in RawParams :
    PureInit(t, "net", "none", raw)

\* one call validateQueryParams(params) on a map of string values
ValidateQuery ==
  /\ pc = "idle"
  /\ tool = "validateQueryParams"
  /\ pc' = "done"
  /\ reply' = [isError |-> FALSE, kind |-> "filters",
               params |-> validateQueryParams(SearchParams(args))]
  /\ UNCHANGED pureVars

\* a resource handler: const params = this.parseResourceParams(uri)
ParseResourceParams ==
  /\ pc = "idle"
  /\ tool = "resource"
  /\ pc' = "parsed"
  /\ reply' = [isError |-> FALSE, kind |-> "params",
               params |-> parseResourceParams(SearchParams(args))]
  /\ UNCHANGED pureVars

\* a resource handler: validatedParams = validateQueryParams(params), the
\* params of this.client.get(config.endpoint, validatedParams)
ValidateResourceParams ==
  /\ pc = "parsed"
  /\ tool = "resource"
  /\ pc' = "done"
  /\ reply' = [isError |-> FALSE, kind |-> "filters",
               params |-> validateQueryParams(reply.params)]
  /\ UNCHANGED pureVars

QueryNext == ValidateQuery \/ ParseResourceParams \/ ValidateResourceParams

QuerySpec == QueryInit /\ [][QueryNext]_vars

\* C16: validateQueryParams rejects nothing and drops no key: its result has
\* exactly the keys it was given, each with the value it was given; a key
\* that is no standard parameter and has no valid modifier (asn__bogus) and
\* a key with a valid modifier other than in (asn__gte) keep their literal
\* key and their string value, also on the way through a resource handler.
C16_KeysAndValuesKept ==
  /\ (tool = "validateQueryParams" /\ pc = "done") =>
       /\ ~reply.isError
       /\ DOMAIN reply.params = DOMAIN args
       /\ \A k \in DOMAIN args : reply.params[k] = QStr(args[k])
  /\ (tool = "resource" /\ pc = "done") =>
       \A k \in DOMAIN args :
         (k \notin VALID_QUERY_PARAMS /\ ~endsWith(QueryChars[k], <<"_", "_", "i", "n">>))
           => k \in DOMAIN reply.params /\ reply.params[k] = QStr(args[k])

\* a map with a key of unknown modifier and a key of a valid modifier came
\* back with both keys and both string values
C16_Witness ==
  /\ tool = "validateQueryParams" /\ pc = "done"
  /\ DOMAIN args = {"asn__bogus", "asn__gte"}
  /\ ~ (ModifierMatch("asn__bogus").modifier \in VALID_QUERY_MODIFIERS)
  /\ ModifierMatch("asn__gte").modifier = "gte"
  /\ reply.params["asn__bogus"] = QStr(args["asn__bogus"])
  /\ reply.params["asn__gte"] = QStr("10")

\* C17: the filters a resource handler sends to the backend hold, for
\* limit, skip, depth and since, the integer when the raw value parses as
\* one, and the raw value unchanged when it does not: the key is neither
\* rejected nor removed.
C17_NonParsingKept ==
  (tool = "resource" /\ pc = "done") =>
    \A k \in (DOMAIN args) \cap {"limit", "skip", "depth", "since"} :
      /\ k \in DOMAIN reply.params
      /\ reply.params[k] = IF parseInt(QueryChars[args[k]]).nan
                           THEN QStr(args[k])
                           ELSE QNum(parseInt(QueryChars[args[k]]).n)

(* ======================================================================= *)
(* Resource URIs: validateResourceUri                                      *)
(* ======================================================================= *)

\* validateObjectType: hasOwnProperty(PEERINGDB_OBJECTS, objectType.toLowerCase())
validateObjectType(type) ==
  Join(toLowerCase(QueryChars[type])) \in DOMAIN PEERINGDB_OBJECTS

\* A URI scheme://host/segment/...?query as new URL(uri) takes it apart: what
\* follows the two slashes is the host, the segments after it are the
\* pathname, and the query is searchParams.
UriHosts == {"net", "ixpfx", "bogus", "example.net"}

UriSegments == {"peeringdb:", "net", "NET", "ixpfx", "bogus", "123"}

\* longest pathname of a URI, in segments
MaxSegments == 3

UriQueries ==
  {[k \in {} |-> ""], [limit |-> "5"], [limit |-> "abc"], [asn__gte |-> "10"]}

Uris ==
  {[host |-> h, path |-> p, query |-> q] :
     h \in UriHosts,
     p \in UNION {[1..n -> UriSegments] : n \in 0..MaxSegments},
     q \in UriQueries}

\* url.pathname.split('/'): the pathname starts with the slash that ends
\* the host, so the first piece is empty
PathnameSplit(uri) == <<"">> \o uri.path

NonEmpty(part) == part # ""

UriError(message) ==
  [isError |-> TRUE, kind |-> "uri", error |-> message,
   objectType |-> "undefined", id |-> "undefined", params |-> <<>>]

\* validateResourceUri: the thrown error, or { objectType, id, params }
\* (id "undefined" when the object has no id)
validateResourceUri(uri) ==
  LET pathParts == SelectSeq(PathnameSplit(uri), NonEmpty)
  IN  IF Len(pathParts) < 1 \/ pathParts[1] # "peeringdb:"
        THEN UriError("Invalid PeeringDB resource URI format")
      ELSE IF Len(pathParts) < 2
        THEN UriError("Missing object type in URI")
      ELSE IF ~validateObjectType(pathParts[2])
        THEN UriError("Invalid object type")
      ELSE [isError |-> FALSE, kind |-> "uri", error |-> "none",
            objectType |-> pathParts[2],
            id |-> IF Len(pathParts) >= 3 THEN pathParts[3] ELSE "undefined",
            params |-> validateQueryParams(SearchParams(uri.query))]

UriInit == \E uri \in Uris : PureInit("validateResourceUri", "net", "none", uri)

\* one call validateResourceUri(uri)
ParseUri ==
  /\ pc = "idle"
  /\ tool = "validateResourceUri"
  /\ pc' = "done"
  /\ reply' = validateResourceUri(args)
  /\ UNCHANGED pureVars

UriNext == ParseUri

UriSpec == UriInit /\ [][UriNext]_vars

\* C18: parsing scheme://T[/id]?query gives, for a registered type T, the
\* object type T, the id exactly when a segment follows the type, and the
\* filters with limit, skip, depth and since as integers; for a T that is
\* not registered it fails with the unknown-type error.
C18_UriParsed ==
  (tool = "validateResourceUri" /\ pc = "done" /\ Len(args.path) <= 1) =>
    IF args.host \in getObjectTypes
    THEN /\ ~reply.isError
         /\ reply.objectType = args.host
         /\ reply.id = IF args.path # <<>> THEN args.path[1] ELSE "undefined"
         /\ \A k \in (DOMAIN args.query) \cap {"limit", "skip", "depth", "since"} :
              ~parseInt(QueryChars[args.query[k]]).nan
                => reply.params[k] = QNum(parseInt(QueryChars[args.query[k]]).n)
    ELSE reply.isError /\ reply.error = "Invalid object type"

\* the same of a URI the parser accepts, one whose pathname starts with the
\* segment peeringdb: (such as https://example.net/peeringdb:/net/123?limit=5)
C18_PathFormParsed ==
  ( /\ tool = "validateResourceUri" /\ pc = "done"
    /\ Len(args.path) >= 2 /\ args.path[1] = "peeringdb:"
    /\ args.path[2] \in getObjectTypes ) =>
      /\ ~reply.isError
      /\ reply.objectType = args.path[2]
      /\ \A k \in (DOMAIN args.query) \cap {"limit", "skip", "depth", "since"} :
           ~parseInt(QueryChars[args.query[k]]).nan
             => reply.params[k] = QNum(parseInt(QueryChars[args.query[k]]).n)

(* ======================================================================= *)
(* Type names: the operations that take an object type name                *)
(* ======================================================================= *)

\* the names an operation is called with: every registered name in lower
\* case, in upper case and capitalised, and a name that is not registered
TypeNames ==
  {"org", "ORG", "Org", "fac", "FAC", "Fac", "ix", "IX", "Ix", "net", "NET",
   "Net", "poc", "POC", "Poc", "ixlan", "IXLAN", "Ixlan", "ixpfx", "IXPFX",
   "Ixpfx", "netixlan", "NETIXLAN", "Netixlan", "netfac", "NETFAC", "Netfac",
   "bogus", "BOGUS"}

\* the name in lower case
LowerName(name) == Join(toLowerCase(QueryChars[name]))

\* what an operation on a type name gives: whether it accepted the name,
\* and the descriptor's endpoint, the schema or the error text it gave
TypeOutcome(ok, endpoint, schema, error) ==
  [ok |-> ok, endpoint |-> endpoint, schema |-> schema, error |-> error]

NoSchema == [required |-> {}, optional |-> {}]

\* createObjectSchema(objectType, operation): const config =
\* PEERINGDB_OBJECTS[objectType], the throw when there is none, and the
\* schema built from config
createObjectSchemaByName(type, op) ==
  IF type \notin DOMAIN PEERINGDB_OBJECTS
  THEN TypeOutcome(FALSE, "none", NoSchema, "Unknown object type")
  ELSE TypeOutcome(TRUE, "none", createObjectSchema(PEERINGDB_OBJECTS[type], op), "none")

\* the resource URI whose pathname is /peeringdb:/<name>[/123]
TypeUri(name, withId) ==
  [host  |-> "example.net",
   path  |-> IF withId = "id" THEN <<"peeringdb:", name, "123">> ELSE <<"peeringdb:", name>>,
   query |-> [k \in {} |-> ""]]

\* the outcome of operation fn on the name, with the further argument arg
\* (the write operation, the schema operation, or whether the URI has an id)
OutcomeOf(fn, name, arg) ==
  CASE fn = "getObjectConfig" ->
         LET c == getObjectConfig(name)
         IN  IF "endpoint" \in DOMAIN c
             THEN TypeOutcome(TRUE, c.endpoint, NoSchema, "none")
             ELSE TypeOutcome(FALSE, "none", NoSchema, "undefined")
    [] fn = "supportsOperation" ->
         TypeOutcome(supportsOperation(name, arg), "none", NoSchema, "none")
    [] fn = "validateObjectType" ->
         TypeOutcome(validateObjectType(name), "none", NoSchema, "none")
    [] fn = "createObjectSchema" -> createObjectSchemaByName(name, arg)
    [] fn = "validateResourceUri" ->
         LET r == validateResourceUri(TypeUri(name, arg))
         IN  TypeOutcome(~r.isError, "none", NoSchema, r.error)

\* the further arguments each operation is called with
TypeArgs(fn) ==
  CASE fn = "getObjectConfig"     -> {"none"}
    [] fn = "supportsOperation"   -> AllOperations
    [] fn = "validateObjectType"  -> {"none"}
    [] fn = "createObjectSchema"  -> ValidateOperations
    [] fn = "validateResourceUri" -> {"id", "none"}

TypeFunctions == {"getObjectConfig", "supportsOperation", "validateObjectType",
                  "createObjectSchema", "validateResourceUri"}

TypeInit ==
  \E fn \in TypeFunctions, name \in TypeNames :
    \E arg \in TypeArgs(fn) :
      PureInit(fn, "ixpfx", "none", [name |-> name, arg |-> arg])

\* one call of the operation named by tool
TypeCall(fn) ==
  /\ pc = "idle"
  /\ tool = fn
  /\ pc' = "done"
  /\ reply' = [isError |-> FALSE, kind |-> "type",
               outcome |-> OutcomeOf(fn, args.name, args.arg)]
  /\ UNCHANGED pureVars

LookupType == TypeCall("getObjectConfig")
SupportsType == TypeCall("supportsOperation")
ExistsType == TypeCall("validateObjectType")
BuildSchema == TypeCall("createObjectSchema")
ParseType == TypeCall("validateResourceUri")

TypeNext == LookupType \/ SupportsType \/ ExistsType \/ BuildSchema \/ ParseType

TypeSpec == TypeInit /\ [][TypeNext]_vars

TypeCalled == tool \in TypeFunctions /\ pc = "done"

\* C21: every operation that takes a type name (registry lookup, supports
\* check, type-existence check, schema building, identifier parsing) gives
\* for a case variant of a name the outcome it gives for the lower-case
\* name, and rejects a name that is not registered.
C21_CaseInsensitive ==
  TypeCalled =>
    /\ reply.outcome = OutcomeOf(tool, LowerName(args.name), args.arg)
    /\ LowerName(args.name) \notin getObjectTypes => ~reply.outcome.ok

\* the same of the operations other than schema building
C21_LookupsCaseInsensitive ==
  (TypeCalled /\ tool # "createObjectSchema") =>
    /\ reply.outcome = OutcomeOf(tool, LowerName(args.name), args.arg)
    /\ LowerName(args.name) \notin getObjectTypes => ~reply.outcome.ok

(* ======================================================================= *)
(* The instance id of put, patch and delete                                *)
(* ======================================================================= *)

\* the calls that got past validateApiKey and were sent to the backend
SentCalls == IF apiKey THEN 1..Len(calls) ELSE {}

\* C22: every put, patch or delete sent to the backend, by an individual
\* tool or for a bulk item, carries the id of its request payload: a
\* request whose payload has no id sends nothing.
C22_NonCreateCallsCarryId ==
  \A n \in SentCalls :
    calls[n].verb \in {"PUT", "PATCH", "DELETE"} =>
      /\ "id" \in DOMAIN PayloadOf(calls[n])
      /\ calls[n].id = PayloadOf(calls[n])["id"]
      /\ calls[n].id # "undefined"

====
